---------------------------- MODULE Spec2Model ----------------------------
(***************************************************************************)
(* The frame loop of src/main.rs (a macroquad arcade shooter): the game    *)
(* state machine, player / obstacle / projectile motion, the two collision *)
(* rules, scoring and the high-score file.                                 *)
(*                                                                         *)
(* f32 lengths are fixed-point numbers in eighths of a pixel (px), frame   *)
(* times are milliseconds.  Every length used below has an exact half, so  *)
(* rect() and the products speed * delta_time are computed exactly.        *)
(* direction_modifier (lines 91, 158, 162) only feeds the background       *)
(* shader and is left out.                                                 *)
(***************************************************************************)
EXTENDS Integers, Sequences, FiniteSets, TLC

VARIABLES
    game_state,   \* line 89: "MainMenu" | "Playing" | "Paused" | "GameOver"
    circle,       \* line 80: the player's Shape
    squares,      \* line 78: Vec<Shape>, the obstacles
    bullets,      \* line 79: Vec<Shape>, the projectiles
    explosions,   \* line 110: Vec<(Emitter, Vec2)>
    score,        \* line 87
    high_score,   \* line 88
    file,         \* highscore.dat: whether it exists, and its contents
    fs_call,      \* the std::fs call made by the last step, "none" when it made none
    delta_time,   \* line 155: the Playing frame's get_frame_time(), 0 once it is used
    pressed,      \* the key edges is_key_pressed reported to this frame, {} once they are used
    pc            \* the position of the loop of lines 112-316

vars == <<game_state, circle, squares, bullets, explosions, score, high_score,
          file, fs_call, delta_time, pressed, pc>>

---------------------------------------------------------------------------
(* Bounds of the model.                                                    *)

\* the random spawn is drawn only while fewer obstacles than this are alive
MaxSquares == 1
\* the fire key is pressed only while fewer projectiles than this are alive
MaxBullets == 2
\* the random spawn is drawn only while score is below this
MaxScore == 22
\* a one-shot emitter has run out after this many draws at the latest
MaxDraws == 2

---------------------------------------------------------------------------
(* Numbers.                                                                *)

\* an f32 number of pixels, in eighths of a pixel
px(n) == 8 * n

\* f32::round of a non-negative length, as u32 (lines 224, 228): half away from zero
round(v) == (v + 4) \div 8

\* u32 addition (line 224).  Within MaxScore the sum stays far below 2^32,
\* where a release build wraps and a debug build panics
U32Add(a, b) == a + b

\* f32 product of a speed (pixels per second) and a frame time (milliseconds)
Times(speed, dt) == (speed * dt) \div 1000

max(a, b) == IF a >= b THEN a ELSE b
min(a, b) == IF a <= b THEN a ELSE b

MOVEMENT_SPEED == 200
PlayerSize == 32
BulletSize == 5

\* screen_width() and screen_height(): a window of 64 x 64 pixels
screen_width == px(64)
screen_height == px(64)

\* the frame times get_frame_time() reports, in milliseconds
DeltaTimes == {80, 160}

\* rand::gen_range(16.0, 64.0) of line 184: 20.5 pixels
Sizes == {px(20) + 4}
\* rand::gen_range(50.0, 150.0) of line 187: 131.25 pixels per second
Speeds == {px(131) + 2}
\* rand::gen_range(size / 2.0, screen_width() - size / 2.0) of line 188: 36
\* pixels from the left edge
SpawnXs(size) == {x \in {px(36)} : size \div 2 <= x /\ x < screen_width - size \div 2}
\* rand::gen_range(0, 99) of line 183
SpawnDraws == 0..98

---------------------------------------------------------------------------
(* highscore.dat: a sequence of characters.                                *)

NoFile == [exists |-> FALSE, contents |-> <<>>]
FileOf(s) == [exists |-> TRUE, contents |-> s]
DigitChars == <<"0", "1", "2", "3", "4", "5", "6", "7", "8", "9">>

RECURSIVE to_string(_)
\* u32::to_string (line 215)
to_string(n) ==
    IF n < 10 THEN <<DigitChars[n + 1]>>
    ELSE Append(to_string(n \div 10), DigitChars[(n % 10) + 1])

DigitValue(c) == CHOOSE d \in 0..9 : DigitChars[d + 1] = c
IsDigit(c) == \E d \in 0..9 : DigitChars[d + 1] = c

RECURSIVE DigitsValue(_)
DigitsValue(s) ==
    IF s = <<>> THEN 0
    ELSE 10 * DigitsValue(SubSeq(s, 1, Len(s) - 1)) + DigitValue(s[Len(s)])

\* str::parse::<u32> (line 88) of at most 9 characters, which cannot overflow:
\* -1 stands for Err
parse_u32(s) ==
    LET body == IF s # <<>> /\ s[1] = "+" THEN Tail(s) ELSE s
    IN  IF body = <<>> \/ \E i \in 1..Len(body) : ~IsDigit(body[i]) THEN -1
        ELSE DigitsValue(body)

\* line 88: read_to_string(..).map_or(Ok(0), |i| i.parse::<u32>()).unwrap_or(0)
load_high_score(f) ==
    IF ~f.exists THEN 0
    ELSE IF parse_u32(f.contents) = -1 THEN 0 ELSE parse_u32(f.contents)

\* what highscore.dat may hold when the process starts
InitialFiles == {NoFile, FileOf(<<"4", "0", "x">>), FileOf(<<"4", "0">>)}

---------------------------------------------------------------------------
(* Shape (lines 23-29, 52-65).                                             *)

Shape(size, speed, x, y) ==
    [size |-> size, speed |-> speed, x |-> x, y |-> y, collided |-> FALSE]

rect(s) == [x |-> s.x - s.size \div 2, y |-> s.y - s.size \div 2,
            w |-> s.size, h |-> s.size]

\* Rect::overlaps with strict comparisons
overlaps_Strict(a, b) ==
    /\ a.x < b.x + b.w
    /\ a.x + a.w > b.x
    /\ a.y < b.y + b.h
    /\ a.y + a.h > b.y

\* macroquad's Rect::overlaps, called at line 54
overlaps(a, b) ==
    /\ a.x <= b.x + b.w
    /\ a.x + a.w >= b.x
    /\ a.y <= b.y + b.h
    /\ a.y + a.h >= b.y

collides_with(a, b) == overlaps(rect(a), rect(b))

---------------------------------------------------------------------------
Init ==
    /\ squares = <<>>
    /\ bullets = <<>>
    /\ circle = Shape(px(PlayerSize), px(MOVEMENT_SPEED),
                      screen_width \div 2, screen_height \div 2)
    /\ score = 0
    /\ file \in InitialFiles
    /\ high_score = load_high_score(file)
    /\ game_state = "MainMenu"
    /\ explosions = <<>>
    /\ fs_call = [call |-> "read"]
    /\ delta_time = 0
    /\ pressed = {}
    /\ pc = "match"

NoCall == [call |-> "none"]

---------------------------------------------------------------------------
(* The arms of match game_state (line 129).  esc and space are the edges   *)
(* is_key_pressed reports in this frame, held the arrow keys is_key_down   *)
(* reports, dt the frame time.                                             *)

\* MainMenu without line 140: the score is not reset
MainMenu_KeepScore(esc, space) ==
    IF esc THEN
        /\ pc' = "exited"
        /\ pressed' = {"Escape"}
        /\ UNCHANGED <<game_state, circle, squares, bullets, explosions, score>>
    ELSE IF space THEN
        /\ squares' = <<>>
        /\ bullets' = <<>>
        /\ explosions' = <<>>
        /\ circle' = [circle EXCEPT !.x = screen_width \div 2,
                                    !.y = screen_height \div 2]
        /\ score' = score
        /\ game_state' = "Playing"
        /\ pressed' = {"Space"}
        /\ pc' = "match"
    ELSE
        /\ pressed' = {}
        /\ pc' = "match"
        /\ UNCHANGED <<game_state, circle, squares, bullets, explosions, score>>

\* lines 130-152
MainMenu(esc, space) ==
    IF esc THEN
        \* std::process::exit(0)
        /\ pc' = "exited"
        /\ pressed' = {"Escape"}
        /\ UNCHANGED <<game_state, circle, squares, bullets, explosions, score>>
    ELSE IF space THEN
        /\ squares' = <<>>
        /\ bullets' = <<>>
        /\ explosions' = <<>>
        /\ circle' = [circle EXCEPT !.x = screen_width \div 2,
                                    !.y = screen_height \div 2]
        /\ score' = 0
        /\ game_state' = "Playing"
        /\ pressed' = {"Space"}
        /\ pc' = "match"
    ELSE
        /\ pressed' = {}
        /\ pc' = "match"
        /\ UNCHANGED <<game_state, circle, squares, bullets, explosions, score>>

\* lines 271-284
Paused(esc) ==
    /\ game_state' = IF esc THEN "Playing" ELSE game_state
    /\ pressed' = IF esc THEN {"Escape"} ELSE {}
    /\ pc' = "match"
    /\ UNCHANGED <<circle, squares, bullets, explosions, score>>

\* GameOver with line 287 starting the next run at once
GameOver_Restart(space) ==
    /\ game_state' = IF space THEN "Playing" ELSE game_state
    /\ pressed' = IF space THEN {"Space"} ELSE {}
    /\ pc' = "match"
    /\ UNCHANGED <<circle, squares, bullets, explosions, score>>

\* GameOver with line 287 pausing the game
GameOver_Pause(space) ==
    /\ game_state' = IF space THEN "Paused" ELSE game_state
    /\ pressed' = IF space THEN {"Space"} ELSE {}
    /\ pc' = "match"
    /\ UNCHANGED <<circle, squares, bullets, explosions, score>>

\* GameOver clearing the obstacles as soon as the run is over
GameOver_Clear(space) ==
    /\ game_state' = IF space THEN "MainMenu" ELSE game_state
    /\ pressed' = IF space THEN {"Space"} ELSE {}
    /\ squares' = <<>>
    /\ pc' = "match"
    /\ UNCHANGED <<circle, bullets, explosions, score>>

\* lines 285-311
GameOver(space) ==
    /\ game_state' = IF space THEN "MainMenu" ELSE game_state
    /\ pressed' = IF space THEN {"Space"} ELSE {}
    /\ pc' = "match"
    /\ UNCHANGED <<circle, squares, bullets, explosions, score>>

\* the clamp without .max(0.0)
clamp_NoFloor(v, hi) == IF v <= hi THEN v ELSE hi

\* lines 180-181: v.min(hi).max(0.0)
clamp(v, hi) == max(min(v, hi), 0)

\* lines 156-169: the player's position after the held arrow keys, before the clamp
Steered(held, dt) ==
    LET step == Times(px(MOVEMENT_SPEED), dt)
        x1 == circle.x + (IF "Right" \in held THEN step ELSE 0)
        x2 == x1 - (IF "Left" \in held THEN step ELSE 0)
        y1 == circle.y + (IF "Down" \in held THEN step ELSE 0)
        y2 == y1 - (IF "Up" \in held THEN step ELSE 0)
    IN  [x |-> x2, y |-> y2]

\* lines 170-178: the projectiles after the fire key
Fired(held, space, dt) ==
    IF space
    THEN Append(bullets, Shape(px(BulletSize), circle.speed * 2,
                               Steered(held, dt).x, Steered(held, dt).y))
    ELSE bullets

\* line 183: the test on the number drawn
SpawnDecision(r) == r >= 95

\* lines 184-191: the obstacles the spawner may push when the test passes
NewSquares ==
    UNION {{Shape(size, speed, x, 0 - size) : x \in SpawnXs(size), speed \in Speeds} :
              size \in Sizes}

\* lines 194-196: the obstacles fall
MoveSquares(shapes, dt) ==
    [i \in 1..Len(shapes) |-> [shapes[i] EXCEPT !.y = @ + Times(shapes[i].speed, dt)]]

\* lines 198-200: the projectiles rise
MoveBullets(shapes, dt) ==
    [i \in 1..Len(shapes) |-> [shapes[i] EXCEPT !.y = @ - Times(shapes[i].speed, dt)]]

\* line 202 with <= for <
SquareOnScreen_Late(square) == square.y <= screen_height + square.size

\* line 202
SquareOnScreen(square) == square.y < screen_height + square.size
\* line 203
BulletOnScreen(bullet) == bullet.y > 0 - bullet.size \div 2
\* lines 206-207
NotCollided(shape) == ~shape.collided
\* line 210 keeping every record
Emitting_Always(explosion) == TRUE

\* line 210
Emitting(explosion) == explosion.emitting

\* line 206 dropped: marked obstacles are kept
RetainSquares_KeepMarked(shapes) == SelectSeq(shapes, SquareOnScreen)

\* lines 202 and 206
RetainSquares(shapes) == SelectSeq(SelectSeq(shapes, SquareOnScreen), NotCollided)
\* line 207 dropped: marked projectiles are kept
RetainBullets_KeepMarked(shapes) == SelectSeq(shapes, BulletOnScreen)

\* lines 203 and 207
RetainBullets(shapes) == SelectSeq(SelectSeq(shapes, BulletOnScreen), NotCollided)

\* lines 155-181: the frame time, the player's movement, the fire key, the clamp
PlayingInput(held, space, dt) ==
    /\ space => Len(bullets) < MaxBullets
    /\ delta_time' = dt
    /\ bullets' = Fired(held, space, dt)
    /\ circle' = [circle EXCEPT !.x = clamp(Steered(held, dt).x, screen_width),
                                !.y = clamp(Steered(held, dt).y, screen_height)]
    /\ pressed' = IF space THEN {"Space"} ELSE {}
    /\ pc' = "update"
    /\ UNCHANGED <<game_state, squares, explosions, score>>

\* the sets of arrow keys is_key_down reports in one frame
HeldKeys == {{}, {"Left"}, {"Down"}, {"Up"}, {"Left", "Up"}}

\* line 129: one frame's dispatch on game_state, with the input it polls
Match ==
    /\ pc = "match"
    /\ CASE game_state = "MainMenu" ->
              /\ \E esc \in BOOLEAN, space \in BOOLEAN : MainMenu(esc, space)
              /\ UNCHANGED delta_time
         [] game_state = "Playing" ->
              \E held \in HeldKeys, space \in BOOLEAN, dt \in DeltaTimes :
                 PlayingInput(held, space, dt)
         [] game_state = "Paused" ->
              /\ \E esc \in BOOLEAN : Paused(esc)
              /\ UNCHANGED delta_time
         [] game_state = "GameOver" ->
              /\ \E space \in BOOLEAN : GameOver(space)
              /\ UNCHANGED delta_time
    /\ fs_call' = NoCall
    /\ UNCHANGED <<high_score, file>>

\* lines 183-210: the spawner, the motion of obstacles and projectiles, the
\* retain passes
Update ==
    /\ pc = "update"
    /\ \E spawn \in {SpawnDecision(r) : r \in SpawnDraws} :
          IF spawn THEN
              /\ Len(squares) < MaxSquares
              /\ score < MaxScore
              /\ \E new \in NewSquares :
                    squares' = RetainSquares(MoveSquares(Append(squares, new), delta_time))
          ELSE squares' = RetainSquares(MoveSquares(squares, delta_time))
    /\ bullets' = RetainBullets(MoveBullets(bullets, delta_time))
    /\ explosions' = SelectSeq(explosions, Emitting)
    /\ delta_time' = 0
    /\ pressed' = {}
    /\ pc' = "rule1"
    /\ fs_call' = NoCall
    /\ UNCHANGED <<game_state, circle, score, high_score, file>>

\* line 214 dropped: every death writes
ShouldPersist_Always == TRUE

\* line 214
ShouldPersist == score = high_score

\* line 213
PlayerHit == \E i \in 1..Len(squares) : collides_with(circle, squares[i])

\* lines 213-218 with the write moved out of the overlap test
PlayerCollision_Eager ==
    /\ pc = "rule1"
    /\ IF ShouldPersist THEN
          \E ok \in BOOLEAN :
             /\ fs_call' = [call |-> "write", contents |-> to_string(high_score),
                            ok |-> ok]
             /\ file' = IF ok THEN FileOf(to_string(high_score)) ELSE file
       ELSE fs_call' = NoCall /\ file' = file
    /\ game_state' = IF PlayerHit THEN "GameOver" ELSE game_state
    /\ pc' = "rule2"
    /\ UNCHANGED <<circle, squares, bullets, explosions, score, high_score,
                   delta_time, pressed>>

\* lines 212-218: the player against the obstacles; fs::write(..).ok() may fail
PlayerCollision ==
    /\ pc = "rule1"
    /\ IF PlayerHit THEN
          /\ IF ShouldPersist THEN
                \E ok \in BOOLEAN :
                   /\ fs_call' = [call |-> "write", contents |-> to_string(high_score),
                                  ok |-> ok]
                   /\ file' = IF ok THEN FileOf(to_string(high_score)) ELSE file
             ELSE fs_call' = NoCall /\ file' = file
          /\ game_state' = "GameOver"
       ELSE
          /\ fs_call' = NoCall
          /\ UNCHANGED <<file, game_state>>
    /\ pc' = "rule2"
    /\ UNCHANGED <<circle, squares, bullets, explosions, score, high_score,
                   delta_time, pressed>>

\* lines 226-232: Emitter::new(EmitterConfig { amount, ..particle_explosion() })
Explosion(square) ==
    [amount |-> round(square.size) * 2, emitting |-> TRUE, draws |-> 0,
     x |-> square.x, y |-> square.y]

\* the pair loop's body without line 223: the obstacle is not marked
PairStep_BulletOnly(st, i, j) ==
    IF collides_with(st.bullets[j], st.squares[i]) THEN
        LET sc == U32Add(st.score, round(st.squares[i].size))
        IN  [bullets    |-> [st.bullets EXCEPT ![j].collided = TRUE],
             squares    |-> st.squares,
             score      |-> sc,
             high_score |-> max(st.high_score, sc),
             explosions |-> Append(st.explosions, Explosion(st.squares[i]))]
    ELSE st

\* the pair loop's body with line 225 as high_score = score
PairStep_Assign(st, i, j) ==
    IF collides_with(st.bullets[j], st.squares[i]) THEN
        LET sc == U32Add(st.score, round(st.squares[i].size))
        IN  [bullets    |-> [st.bullets EXCEPT ![j].collided = TRUE],
             squares    |-> [st.squares EXCEPT ![i].collided = TRUE],
             score      |-> sc,
             high_score |-> sc,
             explosions |-> Append(st.explosions, Explosion(st.squares[i]))]
    ELSE st

\* the pair loop's body without line 225: high_score is left alone
PairStep_KeepHigh(st, i, j) ==
    IF collides_with(st.bullets[j], st.squares[i]) THEN
        LET sc == U32Add(st.score, round(st.squares[i].size))
        IN  [bullets    |-> [st.bullets EXCEPT ![j].collided = TRUE],
             squares    |-> [st.squares EXCEPT ![i].collided = TRUE],
             score      |-> sc,
             high_score |-> st.high_score,
             explosions |-> Append(st.explosions, Explosion(st.squares[i]))]
    ELSE st

\* lines 221-233: the body of the pair loop for obstacle i and projectile j
PairStep(st, i, j) ==
    IF collides_with(st.bullets[j], st.squares[i]) THEN
        LET sc == U32Add(st.score, round(st.squares[i].size))
        IN  [bullets    |-> [st.bullets EXCEPT ![j].collided = TRUE],
             squares    |-> [st.squares EXCEPT ![i].collided = TRUE],
             score      |-> sc,
             high_score |-> max(st.high_score, sc),
             explosions |-> Append(st.explosions, Explosion(st.squares[i]))]
    ELSE st

RECURSIVE PairLoop(_, _)
\* lines 219-235: for square in squares { for bullet in bullets { .. } }, from pair k on
PairLoop(st, k) ==
    LET nb == Len(st.bullets)
    IN  IF k > Len(st.squares) * nb THEN st
        ELSE PairLoop(PairStep(st, ((k - 1) \div nb) + 1, ((k - 1) % nb) + 1), k + 1)

\* lines 219-235: the projectiles against the obstacles
BulletCollisions ==
    /\ pc = "rule2"
    /\ LET st == PairLoop([bullets |-> bullets, squares |-> squares, score |-> score,
                           high_score |-> high_score, explosions |-> explosions], 1)
       IN  /\ bullets' = st.bullets
           /\ squares' = st.squares
           /\ score' = st.score
           /\ high_score' = st.high_score
           /\ explosions' = st.explosions
    /\ pc' = "draw"
    /\ fs_call' = NoCall
    /\ UNCHANGED <<game_state, circle, file, delta_time, pressed>>

\* line 251: Emitter::draw advances the emitter; a one-shot emitter that has
\* run out (out says whether it has with this draw) clears its emitting flag
EmitterDraw(explosion, out) ==
    IF ~explosion.emitting THEN explosion
    ELSE IF out \/ explosion.draws + 1 >= MaxDraws
         THEN [explosion EXCEPT !.emitting = FALSE, !.draws = 0]
         ELSE [explosion EXCEPT !.draws = @ + 1]

\* lines 236-270 and 314: the frame is drawn
Draw ==
    /\ pc = "draw"
    /\ \E done \in SUBSET {i \in 1..Len(explosions) : explosions[i].emitting} :
          explosions' = [i \in 1..Len(explosions) |->
                           EmitterDraw(explosions[i], i \in done)]
    /\ pc' = "match"
    /\ fs_call' = NoCall
    /\ UNCHANGED <<game_state, circle, squares, bullets, score, high_score, file,
                   delta_time, pressed>>

Next ==
    \/ Match
    \/ Update
    \/ PlayerCollision
    \/ BulletCollisions
    \/ Draw

Spec == Init /\ [][Next]_vars

\* lines 212-218 where fs::write succeeds
PlayerCollisionWritten == PlayerCollision /\ (fs_call'.call = "write" => fs_call'.ok)

\* the loop on a machine where every fs::write of line 215 succeeds
NextWritesSucceed ==
    \/ Match
    \/ Update
    \/ PlayerCollisionWritten
    \/ BulletCollisions
    \/ Draw

SpecWritesSucceed == Init /\ [][NextWritesSucceed]_vars

\* distances between two centres around d, the half sum of two sizes: apart,
\* touching, overlapping and aligned, on either side
Offsets(d) == {0 - (d + 8), 0 - d, 0 - (d - 8), 0, d - 8, d, d + 8}

\* a Playing frame about to run its collision rules on one obstacle, with the
\* player and one projectile around it
InitCollides ==
    /\ \E new \in NewSquares :
          /\ squares = <<[new EXCEPT !.y = screen_height \div 2]>>
          /\ \E dx \in Offsets((px(PlayerSize) + new.size) \div 2),
                dy \in Offsets((px(PlayerSize) + new.size) \div 2) :
                circle = Shape(px(PlayerSize), px(MOVEMENT_SPEED),
                               new.x + dx, screen_height \div 2 + dy)
          /\ \E dx \in Offsets((px(BulletSize) + new.size) \div 2),
                dy \in Offsets((px(BulletSize) + new.size) \div 2) :
                bullets = <<Shape(px(BulletSize), px(MOVEMENT_SPEED) * 2,
                                  new.x + dx, screen_height \div 2 + dy)>>
    /\ score = 0
    /\ file = NoFile
    /\ high_score = load_high_score(file)
    /\ game_state = "Playing"
    /\ explosions = <<>>
    /\ fs_call = NoCall
    /\ delta_time = 0
    /\ pressed = {}
    /\ pc = "rule1"

\* the two collision rules of that frame
NextCollides ==
    \/ PlayerCollision
    \/ BulletCollisions

SpecCollides == InitCollides /\ [][NextCollides]_vars

---------------------------------------------------------------------------
(* The claims.                                                             *)

\* C1: a step calls fs::write exactly when it is the player-obstacle check of a
\* Playing frame, the player's box overlaps an obstacle of the collection and
\* score = high_score at that instant; what it writes reads back as high_score,
\* and a write that succeeds leaves exactly that in the file.
C1_WriteIffDeathOnHighScore ==
    [][/\ fs_call'.call = "write" <=>
             (pc = "rule1" /\ game_state = "Playing" /\ PlayerHit /\ score = high_score)
       /\ fs_call'.call = "write" =>
             /\ parse_u32(fs_call'.contents) = high_score
             /\ file' = IF fs_call'.ok THEN FileOf(fs_call'.contents) ELSE file
       /\ fs_call'.call # "write" => file' = file]_vars

\* C1: a run that scored has just ended on its own new high score, and the
\* write went through
C1_Witness ==
    /\ pc = "rule2"
    /\ game_state = "GameOver"
    /\ fs_call.call = "write"
    /\ score > 0
    /\ file = FileOf(to_string(score))

\* C2: game_state changes only MainMenu -> Playing on confirm, Playing ->
\* GameOver on a player-obstacle overlap, GameOver -> MainMenu on confirm and
\* Paused -> Playing on cancel; the process ends only from MainMenu on cancel;
\* and each of these inputs does cause its transition.
C2_Transitions ==
    [][/\ game_state' # game_state =>
             \/ /\ game_state = "MainMenu" /\ game_state' = "Playing"
                /\ pc = "match" /\ pressed' = {"Space"}
             \/ /\ game_state = "Playing" /\ game_state' = "GameOver"
                /\ pc = "rule1" /\ PlayerHit
             \/ /\ game_state = "GameOver" /\ game_state' = "MainMenu"
                /\ pc = "match" /\ pressed' = {"Space"}
             \/ /\ game_state = "Paused" /\ game_state' = "Playing"
                /\ pc = "match" /\ pressed' = {"Escape"}
       /\ (pc' = "exited" /\ pc # "exited") =>
             (game_state = "MainMenu" /\ pc = "match" /\ pressed' = {"Escape"})
       /\ (pc = "match" /\ game_state = "MainMenu" /\ pressed' = {"Space"}) =>
             game_state' = "Playing"
       /\ (pc = "match" /\ game_state = "MainMenu" /\ pressed' = {"Escape"}) =>
             pc' = "exited"
       /\ (pc = "rule1" /\ PlayerHit) => game_state' = "GameOver"
       /\ (pc = "match" /\ game_state = "GameOver" /\ pressed' = {"Space"}) =>
             game_state' = "MainMenu"]_vars

\* C2: back in the menu after a run that ended: the obstacle that ended it is
\* still in the collection
C2_Witness ==
    /\ game_state = "MainMenu"
    /\ pressed = {"Space"}
    /\ \E i \in 1..Len(squares) : collides_with(circle, squares[i])

\* C3: game_state is never Paused.
C3_NeverPaused == game_state \in {"MainMenu", "Playing", "GameOver"}

\* C3: the other three states have all been visited: a second run is under
\* way, after the run that wrote the file
C3_Witness ==
    /\ game_state = "Playing"
    /\ pc = "rule1"
    /\ squares # <<>>
    /\ file \notin InitialFiles

\* C4: a MainMenu -> Playing step empties the three collections, centres the
\* player, sets score to 0 and leaves high_score alone; score decreases in no
\* other step, and no step of the GameOver and MainMenu states changes it
\* otherwise.
C4_ResetOnStart ==
    [][/\ (game_state = "MainMenu" /\ game_state' = "Playing") =>
             /\ squares' = <<>> /\ bullets' = <<>> /\ explosions' = <<>>
             /\ circle'.x = screen_width \div 2 /\ circle'.y = screen_height \div 2
             /\ score' = 0
             /\ high_score' = high_score
       /\ score' < score => (game_state = "MainMenu" /\ game_state' = "Playing")
       /\ (pc = "match" /\ game_state \in {"GameOver", "MainMenu"}
              /\ game_state' # "Playing") => score' = score]_vars

\* C4: a second run has just started after a run that scored and left its
\* obstacles behind
C4_Witness ==
    /\ game_state = "Playing"
    /\ pc = "match"
    /\ pressed = {"Space"}
    /\ score = 0
    /\ squares = <<>> /\ bullets = <<>> /\ explosions = <<>>
    /\ circle.x = screen_width \div 2 /\ circle.y = screen_height \div 2
    /\ high_score \notin {load_high_score(f) : f \in InitialFiles}

RECURSIVE DestroyedPoints(_, _, _)
\* round(size) summed over the obstacles 1..n that are marked in after and were
\* not in before
DestroyedPoints(before_, after_, n) ==
    IF n = 0 THEN 0
    ELSE DestroyedPoints(before_, after_, n - 1)
         + (IF after_[n].collided /\ ~before_[n].collided
            THEN round(after_[n].size) ELSE 0)

\* C5: a projectile-obstacle pass raises score by round(size) once for each
\* obstacle it destroys, however many projectiles overlap it, and leaves
\* high_score at max(previous high_score, new score).
C5_ScoredOncePerObstacle ==
    [][pc = "rule2" =>
          /\ score' = score + DestroyedPoints(squares, squares', Len(squares))
          /\ high_score' = max(high_score, score')]_vars

\* C6 as stated: when a Playing frame is handed to presentation, no obstacle
\* and projectile whose boxes overlap are still in the collections.
C6_SweptInSameFrame ==
    (pc = "draw") =>
        \A i \in 1..Len(squares) : \A j \in 1..Len(bullets) :
            ~collides_with(bullets[j], squares[i])

\* C6 as amended: the pair pass marks every obstacle and projectile whose
\* boxes overlap and removes nothing, so both are still in the collections
\* when the frame is presented; the retain passes of the next Playing frame
\* leave no marked entity, before its collision rules run.
C6_MarkedThenSweptNextFrame ==
    [][/\ pc = "rule2" =>
             /\ Len(squares') = Len(squares) /\ Len(bullets') = Len(bullets)
             /\ \A i \in 1..Len(squares) : \A j \in 1..Len(bullets) :
                   collides_with(bullets[j], squares[i]) =>
                      (squares'[i].collided /\ bullets'[j].collided)
             /\ \A i \in 1..Len(squares) :
                   squares'[i] = [squares[i] EXCEPT !.collided = squares'[i].collided]
             /\ \A j \in 1..Len(bullets) :
                   bullets'[j] = [bullets[j] EXCEPT !.collided = bullets'[j].collided]
       /\ pc = "draw" => (squares' = squares /\ bullets' = bullets)
       /\ pc = "update" =>
             /\ \A i \in 1..Len(squares') : ~squares'[i].collided
             /\ \A j \in 1..Len(bullets') : ~bullets'[j].collided]_vars

\* C6: a frame is presented with a marked obstacle and a marked projectile
\* that overlap
C6_Witness ==
    /\ pc = "draw"
    /\ \E i \in 1..Len(squares) : \E j \in 1..Len(bullets) :
          /\ collides_with(bullets[j], squares[i])
          /\ squares[i].collided /\ bullets[j].collided

\* C7: no step lowers high_score, and the only step that changes it is the
\* pair pass, which leaves max(high_score, score) after scoring.
C7_HighScoreMonotone ==
    [][/\ high_score' >= high_score
       /\ high_score' # high_score =>
             (pc = "rule2" /\ score' > score /\ high_score' = max(high_score, score'))]_vars

\* C7: the pair pass has scored, and the score is still below the high score
C7_Witness ==
    /\ pc = "draw"
    /\ \E i \in 1..Len(squares) : squares[i].collided
    /\ 0 < score
    /\ score < high_score

\* C8: once the retain passes of a Playing frame have run, no obstacle is at
\* y >= screen_height + size and no projectile at y <= -size/2.
C8_Despawned ==
    (pc # "update") =>
        /\ \A i \in 1..Len(squares) : squares[i].y < screen_height + squares[i].size
        /\ \A j \in 1..Len(bullets) : bullets[j].y > 0 - bullets[j].size \div 2

\* C8: motion is about to take an obstacle to exactly screen_height + size and
\* a projectile above the top
C8_Witness ==
    /\ pc = "update"
    /\ \E i \in 1..Len(squares) :
          squares[i].y + Times(squares[i].speed, delta_time)
             = screen_height + squares[i].size
    /\ \E j \in 1..Len(bullets) :
          bullets[j].y - Times(bullets[j].speed, delta_time) <= 0 - bullets[j].size \div 2

\* C9: the player's position is inside [0, screen_width] x [0, screen_height].
C9_PlayerOnScreen ==
    /\ 0 <= circle.x /\ circle.x <= screen_width
    /\ 0 <= circle.y /\ circle.y <= screen_height

\* C9: the player was steered past the left and top edges in one frame: the
\* projectile fired on the way shows the position before the clamp
C9_Witness ==
    /\ pc = "update"
    /\ circle.x = 0 /\ circle.y = 0
    /\ \E j \in 1..Len(bullets) : bullets[j].x < 0 /\ bullets[j].y < 0

\* C10: a frame that starts in MainMenu (without confirm), Paused or GameOver
\* changes no collection, no entity, not the player, score or high_score;
\* every change of them is made by a frame that starts in Playing or by the
\* MainMenu -> Playing reset.
C10_OnlyPlayingSimulates ==
    [][/\ (pc = "match" /\ game_state # "Playing"
              /\ ~(game_state = "MainMenu" /\ game_state' = "Playing")) =>
             UNCHANGED <<squares, bullets, explosions, circle, score, high_score>>
       /\ <<squares, bullets, explosions, circle, score, high_score>>'
             # <<squares, bullets, explosions, circle, score, high_score>> =>
             \/ pc = "match" /\ game_state = "Playing"
             \/ pc \in {"update", "rule1", "rule2", "draw"}
             \/ pc = "match" /\ game_state = "MainMenu" /\ game_state' = "Playing"]_vars

\* C10: the menu after a run that ended with obstacles, effects and points:
\* the GameOver frames kept them all
C10_Witness ==
    /\ game_state = "MainMenu"
    /\ pc = "match"
    /\ squares # <<>>
    /\ explosions # <<>>
    /\ score > 0

\* C11 as stated: highscore.dat is read once, at start-up, and written at most
\* once in the life of the process, however many runs are played: no step
\* reads it, and a step writes it only while no earlier write has replaced
\* what the file held at start-up.
C11_OneWritePerProcess ==
    [][/\ fs_call'.call # "read"
       /\ fs_call'.call = "write" => file \in InitialFiles]_vars

\* C11 as amended: highscore.dat is read once, at start-up, and written only
\* by the step that takes game_state from Playing to GameOver, so at most once
\* per pass MainMenu -> Playing -> GameOver and not at most once per process.
C11_OneWritePerRun ==
    [][/\ fs_call'.call # "read"
       /\ fs_call'.call = "write" =>
             (game_state = "Playing" /\ game_state' = "GameOver")]_vars

\* C11: a later run has just ended with a write (which failed) after an
\* earlier run's write had replaced the file
C11_Witness ==
    /\ game_state = "GameOver"
    /\ fs_call.call = "write"
    /\ ~fs_call.ok
    /\ file \notin InitialFiles

\* C12 as stated: in a Playing frame rule 1 runs, then rule 2, then the sweep
\* of the collided entities: rule 1 removes nothing, so both rules read the
\* same obstacles; rule 2 marks and scores every overlapping pair, also in
\* the frame that ends the run; and the sweep has run when the frame is over,
\* so the frame ends with no marked entity in the collections.
C12_SweepAfterRules ==
    [][/\ pc = "rule1" =>
             /\ squares' = squares /\ bullets' = bullets /\ score' = score
             /\ PlayerHit => game_state' = "GameOver"
       /\ pc = "rule2" =>
             \A i \in 1..Len(squares) : \A j \in 1..Len(bullets) :
                collides_with(bullets[j], squares[i]) =>
                   (squares'[i].collided /\ bullets'[j].collided /\ score' > score)
       /\ pc = "draw" =>
             /\ \A i \in 1..Len(squares') : ~squares'[i].collided
             /\ \A j \in 1..Len(bullets') : ~bullets'[j].collided]_vars

\* C12 as amended: in a Playing frame the sweep runs first and discards what
\* the previous frame's rule 2 marked, then rule 1, then rule 2: after the
\* sweep no entity is marked; rule 1 removes nothing, so both rules read the
\* same obstacles; rule 2 marks and scores every overlapping pair, also in
\* the frame that ends the run; and nothing is removed between rule 2 and the
\* end of the frame.
C12_SweepBeforeRules ==
    [][/\ pc = "update" =>
             /\ pc' = "rule1"
             /\ \A i \in 1..Len(squares') : ~squares'[i].collided
             /\ \A j \in 1..Len(bullets') : ~bullets'[j].collided
       /\ pc = "rule1" =>
             /\ pc' = "rule2"
             /\ squares' = squares /\ bullets' = bullets /\ score' = score
             /\ PlayerHit => game_state' = "GameOver"
       /\ pc = "rule2" =>
             /\ pc' = "draw"
             /\ \A i \in 1..Len(squares) : \A j \in 1..Len(bullets) :
                   collides_with(bullets[j], squares[i]) =>
                      (squares'[i].collided /\ bullets'[j].collided /\ score' > score)
       /\ pc = "draw" =>
             /\ pc' = "match"
             /\ squares' = squares /\ bullets' = bullets]_vars

\* C12: the frame that ended the run also scored the obstacle that ended it,
\* and the obstacle is still there, marked
C12_Witness ==
    /\ pc = "match"
    /\ game_state = "GameOver"
    /\ score > 0
    /\ \E i \in 1..Len(squares) :
          squares[i].collided /\ collides_with(circle, squares[i])

\* C13: when a Playing frame reaches the spawner, the number it draws is one
\* of the 100 values 0..99 and the 5 values 95..99 are the ones that spawn;
\* the frame appends at most one obstacle.
C13_FiveInHundred ==
    [][pc = "update" =>
          /\ SpawnDraws = 0..99
          /\ {r \in SpawnDraws : SpawnDecision(r)} = 95..99
          /\ Len(squares') <= Len(squares) + 1]_vars

\* the (obstacle, projectile) pairs whose boxes overlap
OverlappingPairs ==
    {p \in (1..Len(squares)) \X (1..Len(bullets)) :
        collides_with(bullets[p[2]], squares[p[1]])}

\* C14: the pair pass appends one effect record for each overlapping
\* (obstacle, projectile) pair, anchored at the obstacle's position with
\* round(size) * 2 particles, and that is one record for each obstacle it
\* destroys; no other step appends an effect record.
C14_OneEffectPerObstacle ==
    [][/\ pc = "rule2" =>
             /\ Len(explosions') = Len(explosions) + Cardinality(OverlappingPairs)
             /\ SubSeq(explosions', 1, Len(explosions)) = explosions
             /\ \A k \in Len(explosions) + 1..Len(explosions') :
                   \E p \in OverlappingPairs :
                      /\ explosions'[k].x = squares[p[1]].x
                      /\ explosions'[k].y = squares[p[1]].y
                      /\ explosions'[k].amount = round(squares[p[1]].size) * 2
             /\ Len(explosions') - Len(explosions)
                   = Cardinality({i \in 1..Len(squares) : squares'[i].collided})
       /\ pc # "rule2" => Len(explosions') <= Len(explosions)]_vars

\* C15: a Playing frame with the fire edge appends exactly one projectile, of
\* size 5, twice the player's speed, not collided, at the position the player
\* holds after that frame's movement and clamp; no other step appends a
\* projectile.
C15_FiredFromClampedPosition ==
    [][/\ (pc = "match" /\ game_state = "Playing" /\ pressed' = {"Space"}) =>
             bullets' = Append(bullets,
                               [size |-> px(5), speed |-> circle'.speed * 2,
                                x |-> circle'.x, y |-> circle'.y, collided |-> FALSE])
       /\ ~(pc = "match" /\ game_state = "Playing" /\ pressed' = {"Space"}) =>
             Len(bullets') <= Len(bullets)]_vars

\* C16 as stated: at the end of every frame, in every game state, every
\* effect record in the collection has emitting = TRUE.
C16_EmittingAtFrameEnd ==
    (pc = "match") => \A k \in 1..Len(explosions) : explosions[k].emitting

\* C16 as amended: the update of a Playing frame drops exactly the records
\* whose flag is FALSE and keeps the others in order, so every record is
\* emitting while the collision rules run; the flag falls while the frame is
\* drawn, which drops nothing, so the record is still there, not emitting,
\* when that frame ends; and a frame of another state drops no record,
\* whatever its flag, short of the MainMenu -> Playing reset.
C16_DroppedByNextUpdate ==
    [][/\ pc = "update" =>
             /\ \A k \in 1..Len(explosions') : explosions'[k].emitting
             /\ Len(explosions')
                   = Cardinality({k \in 1..Len(explosions) : explosions[k].emitting})
       /\ pc \in {"rule1", "rule2"} =>
             \A k \in 1..Len(explosions') : explosions'[k].emitting
       /\ pc = "draw" => Len(explosions') = Len(explosions)
       /\ (pc = "match" /\ game_state' # "Playing") => explosions' = explosions]_vars

\* C16: the run is over and the collection holds a record that is no longer
\* emitting
C16_Witness ==
    /\ pc = "match"
    /\ game_state = "GameOver"
    /\ \E k \in 1..Len(explosions) : ~explosions[k].emitting

\* C17: where every write succeeds, whenever game_state is GameOver the value
\* highscore.dat loads as (0 when it is missing) is the high_score in memory,
\* points scored in the frame of the player's death included.
C17_PersistedAtGameOver ==
    (game_state = "GameOver") => load_high_score(file) = high_score

\* C18: score <= high_score in every state: at start-up whatever was loaded,
\* after every pair pass and across the reset of the score.
C18_ScoreAtMostHigh == score <= high_score

\* C18: the run has scored past the high score that was loaded from the file
C18_Witness ==
    /\ file = FileOf(<<"4", "0">>)
    /\ score > 40
    /\ score = high_score

\* C19: when rule 1 and when rule 2 start, no obstacle and no projectile in
\* the collections is marked collided, so what an earlier frame marked takes
\* no part in them.
C19_UnmarkedAtRules ==
    (pc \in {"rule1", "rule2"}) =>
        /\ \A i \in 1..Len(squares) : ~squares[i].collided
        /\ \A j \in 1..Len(bullets) : ~bullets[j].collided

\* C19: rule 1 starts on an obstacle and a projectile in a run in which an
\* earlier frame has marked and scored
C19_Witness ==
    /\ pc = "rule1"
    /\ game_state = "Playing"
    /\ score > 0
    /\ squares # <<>>
    /\ bullets # <<>>

Abs(v) == IF v < 0 THEN 0 - v ELSE v

\* the squares centred on a and b, with edges a.size and b.size, intersect in
\* a region that has positive extent on both axes
PositiveArea(a, b) ==
    /\ 2 * Abs(a.x - b.x) < a.size + b.size
    /\ 2 * Abs(a.y - b.y) < a.size + b.size

\* the two squares have a point in common: an edge or a corner is enough
Touching(a, b) ==
    /\ 2 * Abs(a.x - b.x) <= a.size + b.size
    /\ 2 * Abs(a.y - b.y) <= a.size + b.size

\* C20 as stated: collides_with is symmetric, and rule 1 ends the run and
\* rule 2 marks the obstacle exactly when the two squares intersect in a
\* region of positive area; squares that only touch do not collide.
C20_PositiveAreaOnly ==
    [][/\ pc = "rule1" =>
             /\ game_state' = "GameOver" <=> PositiveArea(circle, squares[1])
             /\ collides_with(circle, squares[1]) <=> collides_with(squares[1], circle)
       /\ pc = "rule2" =>
             /\ squares'[1].collided <=> PositiveArea(bullets[1], squares[1])
             /\ collides_with(bullets[1], squares[1])
                   <=> collides_with(squares[1], bullets[1])]_vars

\* C20 as amended: collides_with is symmetric, and rule 1 ends the run and
\* rule 2 marks the obstacle exactly when the two squares have a point in
\* common; squares that only touch along an edge or at a corner collide.
C20_TouchingCollides ==
    [][/\ pc = "rule1" =>
             /\ game_state' = "GameOver" <=> Touching(circle, squares[1])
             /\ collides_with(circle, squares[1]) <=> collides_with(squares[1], circle)
       /\ pc = "rule2" =>
             /\ squares'[1].collided <=> Touching(bullets[1], squares[1])
             /\ collides_with(bullets[1], squares[1])
                   <=> collides_with(squares[1], bullets[1])]_vars

\* C20: the run was ended by an obstacle that touches the player at a corner
\* only, and a projectile that touches the obstacle along an edge has marked it
C20_Witness ==
    /\ pc = "draw"
    /\ game_state = "GameOver"
    /\ 2 * Abs(circle.x - squares[1].x) = circle.size + squares[1].size
    /\ 2 * Abs(circle.y - squares[1].y) = circle.size + squares[1].size
    /\ squares[1].collided
    /\ 2 * Abs(bullets[1].x - squares[1].x) = bullets[1].size + squares[1].size
    /\ bullets[1].y = squares[1].y

=============================================================================
